---- MODULE Spec2Model ----
(***************************************************************************)
(* GainTransition (audiomentations/augmentations/gain_transition.py).      *)
(*                                                                         *)
(* Representation.                                                         *)
(*  - A Python value that may be None / a dict key that may be absent is   *)
(*    a sequence of length 0 (None, absent) or 1 (<<v>>).                  *)
(*  - A decibel level is an exact rational [n, d] (d > 0, lowest terms);   *)
(*    float32 rounding of np.linspace is not modelled.                     *)
(*  - An amplitude ratio 10^(db/20) is the record [amp20 |-> db]: the      *)
(*    conversion is injective, so two ratios are equal iff their levels    *)
(*    are.                                                                 *)
(*  - A sample is [x |-> input value, g |-> the sequence of amplitude      *)
(*    ratios it has been multiplied by, in order]; a waveform is a         *)
(*    sequence of channels, each a sequence of samples (a 1-D array is one *)
(*    channel).                                                            *)
(***************************************************************************)
EXTENDS Integers, Sequences, FiniteSets, TLC

\* ------------------------------------------------------------------ bounds
MaxTotal == 5        \* longest waveform, in samples
MaxChannels == 2     \* most channels of a waveform
MaxDuration == 4     \* largest duration bound of a configuration in samples
MaxShift == 3        \* how far outside the drawable range a free t0 may lie
MaxFade == 4         \* longest free fade_time_samples

\* ------------------------------------------------------------- arithmetic
Min(a, b) == IF a <= b THEN a ELSE b
Max(a, b) == IF a >= b THEN a ELSE b
Abs(a) == IF a < 0 THEN -a ELSE a

RECURSIVE GCD(_, _)
GCD(a, b) == IF b = 0 THEN a ELSE GCD(b, a % b)

\* the rational n/d (d > 0) in lowest terms
Rat(n, d) == LET g == GCD(Abs(n), d) IN [n |-> n \div g, d |-> d \div g]

RatLeq(a, b) == a.n * b.d <= b.n * a.d
RatIsInt(a) == a.d = 1

\* Python's int(round(x)) of the float n/d: nearest integer, ties to even
RoundHalfEven(n, d) ==
    LET q == n \div d
        r == n % d
    IN  IF 2 * r < d THEN q
        ELSE IF 2 * r > d THEN q + 1
        ELSE IF q % 2 = 0 THEN q ELSE q + 1

\* ------------------------------------------------------ Python sequences
\* a slice bound as Python normalises it against a length
SliceIndex(i, len) == IF i < 0 THEN Max(i + len, 0) ELSE Min(i, len)

\* the 0-based positions seq[lo:hi] selects
SliceRange(lo, hi, len) == { i \in 0..(len - 1) : SliceIndex(lo, len) <= i /\ i < SliceIndex(hi, len) }

\* seq[lo:hi]
PySlice(seq, lo, hi) ==
    LET a == SliceIndex(lo, Len(seq))
        b == SliceIndex(hi, Len(seq))
    IN  IF a < b THEN SubSeq(seq, a + 1, b) ELSE <<>>

\* ------------------------------------------------------------ fade curve
\* audiomentations.core.utils.convert_decibels_to_amplitude_ratio: 10^(db/20)
convert_decibels_to_amplitude_ratio(db) == [amp20 |-> db]

\* np.linspace(start, stop, num): num evenly spaced levels, both ends included
linspace(start, stop, num) ==
    [k \in 1..num |->
        IF num = 1 THEN Rat(start, 1)
        ELSE Rat(start * (num - 1) + (k - 1) * (stop - start), num - 1)]

get_fade_mask(start_level_db, end_level_db, fade_time_samples) ==
    LET fade_mask == linspace(start_level_db, end_level_db, fade_time_samples)
    IN  [k \in 1..fade_time_samples |-> convert_decibels_to_amplitude_ratio(fade_mask[k])]

\* --------------------------------------------------------------- waveforms
\* the caller's array of a given shape; every sample has its own value
Waveform(channels, total) ==
    [c \in 1..channels |-> [i \in 1..total |-> [x |-> 10 * c + i, g |-> <<>>]]]

\* samples.shape[-1]
NumSamples(samples) == Len(samples[1])

\* whether  samples[..., lo:hi] *= mask  broadcasts (a mask of one point does)
Broadcasts(samples, lo, hi, mask) ==
    \/ Len(mask) = Cardinality(SliceRange(lo, hi, NumSamples(samples)))
    \/ Len(mask) = 1

\* samples[..., lo:hi] *= mask, on every channel
MultiplyByMask(samples, lo, hi, mask) ==
    LET n == NumSamples(samples)
        first == SliceIndex(lo, n)
    IN  [c \in 1..Len(samples) |->
            [i \in 1..n |->
                IF (i - 1) \in SliceRange(lo, hi, n)
                THEN [samples[c][i] EXCEPT
                        !.g = Append(@, IF Len(mask) = 1 THEN mask[1] ELSE mask[i - first])]
                ELSE samples[c][i]]]

\* samples[..., lo:hi] *= ratio, on every channel
MultiplyByRatio(samples, lo, hi, ratio) ==
    LET n == NumSamples(samples)
    IN  [c \in 1..Len(samples) |->
            [i \in 1..n |->
                IF (i - 1) \in SliceRange(lo, hi, n)
                THEN [samples[c][i] EXCEPT !.g = Append(@, ratio)]
                ELSE samples[c][i]]]

\* ------------------------------------------------------------ input sets
Units == {"samples", "fraction", "seconds"}
UnitArgs == Units \cup {"bogus"}
\* None, or a level in decibels
GainArgs == {<<>>, <<-30>>}
\* levels random.uniform is taken to return, when within its two ends
GainLevels == {-30, 6}
\* integers are Python ints; 1/2 is a float
DurationArgs == {Rat(n, 1) : n \in 0..MaxDuration} \cup {Rat(1, 2)}
\* durations given as a fraction or in seconds are at most 1
ShortDurationArgs == {Rat(0, 1), Rat(1, 2), Rat(1, 1)}
\* p, in hundredths
PArgs == {0, 50}
\* values random.random() is taken to return, in hundredths
RandomDraws == {0, 99}
SampleRates == {5}

ConstructorArgs ==
    { a \in [min_gain_in_db : GainArgs, max_gain_in_db : GainArgs,
             min_gain_db : GainArgs, max_gain_db : GainArgs,
             min_duration : DurationArgs, max_duration : DurationArgs,
             duration_unit : UnitArgs, p : PArgs] :
        \/ a.duration_unit = "samples"
        \/ a.min_duration \in ShortDurationArgs /\ a.max_duration \in ShortDurationArgs }

ParamNames == {"fade_time_samples", "t0", "start_gain_db", "end_gain_db"}

\* BaseTransform.__init__: the parameters mapping of a new instance
NoParameters ==
    [should_apply |-> <<>>, fade_time_samples |-> <<>>, t0 |-> <<>>,
     start_gain_db |-> <<>>, end_gain_db |-> <<>>]

\* ------------------------------------------------------------ construction
\* GainTransitionInit without its check that min_duration is positive
GainTransitionInitAnyMin(a) ==
    IF a.min_gain_db # <<>> /\ a.min_gain_in_db # <<>> THEN <<>>
    ELSE IF a.max_gain_db # <<>> /\ a.max_gain_in_db # <<>> THEN <<>>
    ELSE
      LET min_gain == IF a.min_gain_db # <<>> THEN a.min_gain_db[1]
                      ELSE IF a.min_gain_in_db # <<>> THEN a.min_gain_in_db[1]
                      ELSE -24
          max_gain == IF a.max_gain_db # <<>> THEN a.max_gain_db[1]
                      ELSE IF a.max_gain_in_db # <<>> THEN a.max_gain_in_db[1]
                      ELSE 6
      IN  IF ~(min_gain <= max_gain) THEN <<>>
          ELSE IF ~RatLeq(a.min_duration, a.max_duration) THEN <<>>
          ELSE << [min_gain_db |-> min_gain, max_gain_db |-> max_gain,
                   min_duration |-> a.min_duration, max_duration |-> a.max_duration,
                   duration_unit |-> a.duration_unit, p |-> a.p] >>

\* GainTransition.__init__: <<>> when it raises, else the stored fields
GainTransitionInit(a) ==
    IF a.min_gain_db # <<>> /\ a.min_gain_in_db # <<>> THEN <<>>
    ELSE IF a.max_gain_db # <<>> /\ a.max_gain_in_db # <<>> THEN <<>>
    ELSE
      LET min_gain == IF a.min_gain_db # <<>> THEN a.min_gain_db[1]
                      ELSE IF a.min_gain_in_db # <<>> THEN a.min_gain_in_db[1]
                      ELSE -24
          max_gain == IF a.max_gain_db # <<>> THEN a.max_gain_db[1]
                      ELSE IF a.max_gain_in_db # <<>> THEN a.max_gain_in_db[1]
                      ELSE 6
      IN  IF ~(min_gain <= max_gain) THEN <<>>
          ELSE IF ~(a.min_duration.n > 0) THEN <<>>
          ELSE IF ~RatLeq(a.min_duration, a.max_duration) THEN <<>>
          ELSE << [min_gain_db |-> min_gain, max_gain_db |-> max_gain,
                   min_duration |-> a.min_duration, max_duration |-> a.max_duration,
                   duration_unit |-> a.duration_unit, p |-> a.p] >>

\* ------------------------------------------------------ randomize_parameters
\* random.randint(a, b) on Python ints: the values it can return; none: it raises
randint(a, b) == a..b

\* random.uniform(a, b)
uniform(a, b) == { g \in GainLevels : a <= g /\ g <= b }

\* lines 120-134: the two bounds in samples; <<>>: ValueError("Invalid duration_unit")
DurationInSamples(cfg, total, sample_rate) ==
    IF cfg.duration_unit = "samples"
    THEN << [min |-> cfg.min_duration, max |-> cfg.max_duration] >>
    ELSE IF cfg.duration_unit = "fraction"
    THEN << [min |-> Rat(RoundHalfEven(cfg.min_duration.n * total, cfg.min_duration.d), 1),
             max |-> Rat(RoundHalfEven(cfg.max_duration.n * total, cfg.max_duration.d), 1)] >>
    ELSE IF cfg.duration_unit = "seconds"
    THEN << [min |-> Rat(RoundHalfEven(cfg.min_duration.n * sample_rate, cfg.min_duration.d), 1),
             max |-> Rat(RoundHalfEven(cfg.max_duration.n * sample_rate, cfg.max_duration.d), 1)] >>
    ELSE <<>>

\* FadeTimeDraws without the floor of 3
FadeTimeDrawsNoFloor(b) ==
    IF RatIsInt(b.min) /\ RatIsInt(b.max)
    THEN randint(b.min.n, b.max.n)
    ELSE {}

\* line 136-138: the values fade_time_samples can get; none: randint raises
\* (a bound that is not an integer, or an empty range)
FadeTimeDraws(b) ==
    IF RatIsInt(b.min) /\ RatIsInt(b.max)
    THEN { Max(3, d) : d \in randint(b.min.n, b.max.n) }
    ELSE {}

\* T0Draws over a range one sample wider at each end
T0DrawsWide(fade_time_samples, total) == randint(-fade_time_samples + 1, total - 1)

\* lines 139-142: the values t0 can get
T0Draws(fade_time_samples, total) == randint(-fade_time_samples + 2, total - 2)

\* DrawFadeParameters assigning t0 only while the mapping has none
DrawFadeParametersKeepT0(cfg, par, total, sample_rate) ==
    LET b == DurationInSamples(cfg, total, sample_rate)
    IN  IF b = <<>> THEN { [raised |-> TRUE, parameters |-> par, drawn |-> {}] }
        ELSE IF FadeTimeDraws(b[1]) = {}
        THEN { [raised |-> TRUE, parameters |-> par, drawn |-> {}] }
        ELSE UNION {
            LET p1 == [par EXCEPT !.fade_time_samples = <<f>>]
            IN  IF T0Draws(f, total) = {}
                THEN { [raised |-> TRUE, parameters |-> p1, drawn |-> {"fade_time_samples"}] }
                ELSE { [raised |-> FALSE,
                        parameters |-> [p1 EXCEPT !.t0 = IF par.t0 = <<>> THEN <<t>> ELSE par.t0,
                                                  !.start_gain_db = <<s>>,
                                                  !.end_gain_db = <<e>>],
                        drawn |-> IF par.t0 = <<>> THEN ParamNames ELSE ParamNames \ {"t0"}] :
                       t \in T0Draws(f, total),
                       s \in uniform(cfg.min_gain_db, cfg.max_gain_db),
                       e \in uniform(cfg.min_gain_db, cfg.max_gain_db) }
            : f \in FadeTimeDraws(b[1]) }

\* lines 119-148, should_apply being true: every way the body can end
\* (raised: an exception left the method; drawn: the keys it assigned)
DrawFadeParameters(cfg, par, total, sample_rate) ==
    LET b == DurationInSamples(cfg, total, sample_rate)
    IN  IF b = <<>> THEN { [raised |-> TRUE, parameters |-> par, drawn |-> {}] }
        ELSE IF FadeTimeDraws(b[1]) = {}
        THEN { [raised |-> TRUE, parameters |-> par, drawn |-> {}] }
        ELSE UNION {
            LET p1 == [par EXCEPT !.fade_time_samples = <<f>>]
            IN  IF T0Draws(f, total) = {}
                THEN { [raised |-> TRUE, parameters |-> p1, drawn |-> {"fade_time_samples"}] }
                ELSE { [raised |-> FALSE,
                        parameters |-> [p1 EXCEPT !.t0 = <<t>>,
                                                  !.start_gain_db = <<s>>,
                                                  !.end_gain_db = <<e>>],
                        drawn |-> ParamNames] :
                       t \in T0Draws(f, total),
                       s \in uniform(cfg.min_gain_db, cfg.max_gain_db),
                       e \in uniform(cfg.min_gain_db, cfg.max_gain_db) }
            : f \in FadeTimeDraws(b[1]) }

\* BaseTransform.randomize_parameters: should_apply = random.random() < p
BaseRandomizeParameters(cfg, par) ==
    { [par EXCEPT !.should_apply = <<(r < cfg.p)>>] : r \in RandomDraws }

\* randomize_parameters dropping the fade parameters when should_apply is false
randomize_parameters_forgetting(cfg, par, total, sample_rate) ==
    UNION {
        IF p0.should_apply = <<TRUE>>
        THEN DrawFadeParameters(cfg, p0, total, sample_rate)
        ELSE { [raised |-> FALSE,
                parameters |-> [NoParameters EXCEPT !.should_apply = p0.should_apply],
                drawn |-> {}] }
        : p0 \in BaseRandomizeParameters(cfg, par) }

\* randomize_parameters leaving the gains of an earlier call in place
randomize_parameters_stale_gains(cfg, par, total, sample_rate) ==
    UNION {
        IF p0.should_apply = <<TRUE>>
        THEN { IF o.raised \/ par.start_gain_db = <<>> THEN o
               ELSE [o EXCEPT !.parameters.start_gain_db = par.start_gain_db,
                              !.parameters.end_gain_db = par.end_gain_db,
                              !.drawn = {"fade_time_samples", "t0"}]
               : o \in DrawFadeParameters(cfg, p0, total, sample_rate) }
        ELSE { [raised |-> FALSE, parameters |-> p0, drawn |-> {}] }
        : p0 \in BaseRandomizeParameters(cfg, par) }

\* GainTransition.randomize_parameters: every way the call can end
randomize_parameters(cfg, par, total, sample_rate) ==
    UNION {
        IF p0.should_apply = <<TRUE>>
        THEN DrawFadeParameters(cfg, p0, total, sample_rate)
        ELSE { [raised |-> FALSE, parameters |-> p0, drawn |-> {}] }
        : p0 \in BaseRandomizeParameters(cfg, par) }

\* --------------------------------------------------------------------- apply
\* CropFadeMask with the right crop measured on the uncropped curve
CropFadeMaskRightOnFull(par, num_samples) ==
    LET mask0 == get_fade_mask(par.start_gain_db[1], par.end_gain_db[1],
                               par.fade_time_samples[1])
        start0 == par.t0[1]
        end0 == start0 + par.fade_time_samples[1]
        mask1 == IF start0 < 0 THEN PySlice(mask0, Abs(start0), Len(mask0)) ELSE mask0
        start1 == IF start0 < 0 THEN 0 ELSE start0
        mask2 == IF end0 > num_samples
                 THEN PySlice(mask1, 0, Len(mask0) - (end0 - num_samples))
                 ELSE mask1
        end1 == IF end0 > num_samples THEN num_samples ELSE end0
    IN  [fade_mask |-> mask2, start_sample_index |-> start1, end_sample_index |-> end1]

\* lines 151-169: the locals of apply when it reaches line 171
CropFadeMask(par, num_samples) ==
    LET mask0 == get_fade_mask(par.start_gain_db[1], par.end_gain_db[1],
                               par.fade_time_samples[1])
        start0 == par.t0[1]
        end0 == start0 + par.fade_time_samples[1]
        mask1 == IF start0 < 0 THEN PySlice(mask0, Abs(start0), Len(mask0)) ELSE mask0
        start1 == IF start0 < 0 THEN 0 ELSE start0
        mask2 == IF end0 > num_samples
                 THEN PySlice(mask1, 0, Len(mask1) - (end0 - num_samples))
                 ELSE mask1
        end1 == IF end0 > num_samples THEN num_samples ELSE end0
    IN  [fade_mask |-> mask2, start_sample_index |-> start1, end_sample_index |-> end1]

\* a thread's arrays: the caller's, and the one np.copy made (if any)
Load(h, ref) == IF ref = "input" THEN h.input ELSE h.copy[1]
Store(h, ref, array) ==
    IF ref = "input" THEN [h EXCEPT !.input = array] ELSE [h EXCEPT !.copy = <<array>>]

\* np_copy handing back the caller's array itself
np_copy_alias(h) == [heap |-> h, ref |-> "input"]

\* line 171, samples = np.copy(samples): the arrays after it and what the
\* local name samples then refers to
np_copy(h) == [heap |-> [h EXCEPT !.copy = <<h.input>>], ref |-> "copy"]

\* ApplyGains holding the start gain after the transition as well
ApplyGainsStartHeld(h, par, loc) ==
    LET c == np_copy(h)
        lo == loc.start_sample_index
        hi == loc.end_sample_index
        n == NumSamples(h.input)
        a0 == Load(c.heap, c.ref)
    IN  IF ~Broadcasts(a0, lo, hi, loc.fade_mask)
        THEN [raised |-> TRUE, heap |-> c.heap, ret |-> <<>>]
        ELSE
          LET a1 == MultiplyByMask(a0, lo, hi, loc.fade_mask)
              a2 == IF lo > 0
                    THEN MultiplyByRatio(a1, 0, lo,
                            convert_decibels_to_amplitude_ratio(Rat(par.start_gain_db[1], 1)))
                    ELSE a1
              a3 == IF hi < n
                    THEN MultiplyByRatio(a2, hi, n,
                            convert_decibels_to_amplitude_ratio(Rat(par.start_gain_db[1], 1)))
                    ELSE a2
          IN  [raised |-> FALSE, heap |-> Store(c.heap, c.ref, a3), ret |-> <<c.ref>>]

\* lines 171-182, from the locals of CropFadeMask
ApplyGains(h, par, loc) ==
    LET c == np_copy(h)
        lo == loc.start_sample_index
        hi == loc.end_sample_index
        n == NumSamples(h.input)
        a0 == Load(c.heap, c.ref)
    IN  IF ~Broadcasts(a0, lo, hi, loc.fade_mask)
        THEN [raised |-> TRUE, heap |-> c.heap, ret |-> <<>>]
        ELSE
          LET a1 == MultiplyByMask(a0, lo, hi, loc.fade_mask)
              a2 == IF lo > 0
                    THEN MultiplyByRatio(a1, 0, lo,
                            convert_decibels_to_amplitude_ratio(Rat(par.start_gain_db[1], 1)))
                    ELSE a1
              a3 == IF hi < n
                    THEN MultiplyByRatio(a2, hi, n,
                            convert_decibels_to_amplitude_ratio(Rat(par.end_gain_db[1], 1)))
                    ELSE a2
          IN  [raised |-> FALSE, heap |-> Store(c.heap, c.ref, a3), ret |-> <<c.ref>>]

\* GainTransition.apply; reading a key that was never assigned raises KeyError
apply(h, par) ==
    IF \E k \in ParamNames : par[k] = <<>>
    THEN [raised |-> TRUE, heap |-> h, ret |-> <<>>]
    ELSE ApplyGains(h, par, CropFadeMask(par, NumSamples(h.input)))

\* ------------------------------------------------------------------- state
Threads == {1, 2}
Instances == {1, 2}

VARIABLES
    inst,        \* "new", "constructed", or "failed" (the constructor raised)
    config,      \* <<>>, or <<the fields __init__ stored>>
    sync,        \* how invocations are scheduled: "sequential" (one thread),
                 \* "none" (two threads, one instance, no lock), "atomic" (two
                 \* threads, one instance, a lock around each invocation),
                 \* "own" (two threads, an instance each)
    lock,        \* the thread holding the caller's lock, or 0
    parameters,  \* instance -> its parameters mapping
    owner,       \* instance -> key -> the thread whose invocation in progress
                 \* assigned the key's value; 0: an invocation that has ended
    pc,          \* thread -> where its invocation is
    call,        \* thread -> <<>>, or <<the arguments and coin flip of its invocation>>
    heap,        \* thread -> [input: the caller's array, copy: <<>> or <<np.copy's array>>]
    ret,         \* thread -> <<>>, or <<the array returned: "input" or "copy">>
    frame        \* thread -> <<>>, or <<what apply read and its locals at line 171>>

vars == <<inst, config, sync, lock, parameters, owner, pc, call, heap, ret, frame>>

InstanceOf(t) == IF sync = "own" THEN t ELSE 1
ActiveThreads == IF sync = "sequential" THEN {1} ELSE Threads
BetweenInvocations(t) == pc[t] = "idle"

NoHeap == [input |-> <<>>, copy |-> <<>>]

Init ==
    /\ inst = "new"
    /\ config = <<>>
    /\ sync = "sequential"
    /\ lock = 0
    /\ parameters = [i \in Instances |-> NoParameters]
    /\ owner = [i \in Instances |-> [k \in ParamNames |-> 0]]
    /\ pc = [t \in Threads |-> "idle"]
    /\ call = [t \in Threads |-> <<>>]
    /\ heap = [t \in Threads |-> NoHeap]
    /\ ret = [t \in Threads |-> <<>>]
    /\ frame = [t \in Threads |-> <<>>]

\* GainTransition(...)
Construct ==
    /\ inst = "new"
    /\ \E a \in ConstructorArgs :
        LET r == GainTransitionInit(a)
        IN  /\ inst' = IF r = <<>> THEN "failed" ELSE "constructed"
            /\ config' = r
    /\ UNCHANGED <<sync, lock, parameters, owner, pc, call, heap, ret, frame>>

\* transform(samples, sample_rate), up to the return of randomize_parameters
BeginCall(t, channels, total, sample_rate) ==
    /\ inst = "constructed"
    /\ t \in ActiveThreads
    /\ BetweenInvocations(t)
    /\ sync = "atomic" => lock = 0
    /\ LET i == InstanceOf(t)
       IN  \E o \in randomize_parameters(config[1], parameters[i], total, sample_rate) :
            /\ parameters' = [parameters EXCEPT ![i] = o.parameters]
            /\ owner' = [owner EXCEPT ![i] =
                            [k \in ParamNames |->
                                IF k \in o.drawn THEN t ELSE owner[i][k]]]
            /\ pc' = [pc EXCEPT ![t] = IF o.raised THEN "raised" ELSE "randomized"]
            /\ call' = [call EXCEPT ![t] =
                            << [channels |-> channels, total |-> total,
                                sample_rate |-> sample_rate,
                                coin |-> o.parameters.should_apply[1]] >>]
            /\ lock' = IF sync = "atomic" /\ ~o.raised THEN t ELSE lock
    /\ heap' = [heap EXCEPT ![t] = [input |-> Waveform(channels, total), copy |-> <<>>]]
    /\ ret' = [ret EXCEPT ![t] = <<>>]
    /\ frame' = [frame EXCEPT ![t] = <<>>]
    /\ UNCHANGED <<inst, config, sync>>

Call(t) ==
    \E channels \in 1..MaxChannels, total \in 0..MaxTotal, sample_rate \in SampleRates :
        BeginCall(t, channels, total, sample_rate)

\* should_apply is true: return self.apply(samples, sample_rate)
Apply(t) ==
    /\ pc[t] = "randomized"
    /\ parameters[InstanceOf(t)].should_apply = <<TRUE>>
    /\ LET par == parameters[InstanceOf(t)]
           r == apply(heap[t], par)
       IN  /\ heap' = [heap EXCEPT ![t] = r.heap]
           /\ ret' = [ret EXCEPT ![t] = r.ret]
           /\ pc' = [pc EXCEPT ![t] = IF r.raised THEN "apply_raised" ELSE "applied"]
           /\ frame' = [frame EXCEPT ![t] =
                IF \E k \in ParamNames : par[k] = <<>> THEN <<>>
                ELSE << [locals |-> CropFadeMask(par, NumSamples(heap[t].input)),
                         read |-> [k \in ParamNames |-> par[k][1]],
                         owners |-> { owner[InstanceOf(t)][k] : k \in ParamNames }] >>]
    /\ lock' = IF lock = t THEN 0 ELSE lock
    /\ UNCHANGED <<inst, config, sync, parameters, owner, call>>

\* should_apply is not true: return samples
Skip(t) ==
    /\ pc[t] = "randomized"
    /\ parameters[InstanceOf(t)].should_apply # <<TRUE>>
    /\ ret' = [ret EXCEPT ![t] = <<"input">>]
    /\ pc' = [pc EXCEPT ![t] = "skipped"]
    /\ lock' = IF lock = t THEN 0 ELSE lock
    /\ UNCHANGED <<inst, config, sync, parameters, owner, call, heap, frame>>

\* the invocation ends: its result (or its exception) is the caller's
Return(t) ==
    /\ pc[t] \in {"applied", "skipped", "raised", "apply_raised"}
    /\ pc' = [pc EXCEPT ![t] = "idle"]
    /\ owner' = [i \in Instances |->
                    [k \in ParamNames |-> IF owner[i][k] = t THEN 0 ELSE owner[i][k]]]
    /\ call' = [call EXCEPT ![t] = <<>>]
    /\ heap' = [heap EXCEPT ![t] = NoHeap]
    /\ ret' = [ret EXCEPT ![t] = <<>>]
    /\ frame' = [frame EXCEPT ![t] = <<>>]
    /\ UNCHANGED <<inst, config, sync, lock, parameters>>

Next ==
    \/ Construct
    \/ \E t \in Threads : Call(t)
    \/ \E t \in Threads : Apply(t)
    \/ \E t \in Threads : Skip(t)
    \/ \E t \in Threads : Return(t)

Spec == Init /\ [][Next]_vars

\* ---------------------------------------------- apply on free parameters
\* apply as a function of any fade_time_samples >= 1, any t0 and any waveform:
\* the instance is constructed, and its parameters mapping holds values that
\* need not be ones randomize_parameters draws for the waveform
FreeConfig ==
    GainTransitionInit([min_gain_in_db |-> <<>>, max_gain_in_db |-> <<>>,
                        min_gain_db |-> <<>>, max_gain_db |-> <<>>,
                        min_duration |-> Rat(1, 2), max_duration |-> Rat(1, 1),
                        duration_unit |-> "seconds", p |-> 50])[1]

InitFree ==
    /\ inst = "constructed"
    /\ config = <<FreeConfig>>
    /\ sync = "sequential"
    /\ lock = 0
    /\ \E f \in 1..MaxFade, t0 \in (-MaxFade - MaxShift)..(MaxTotal + MaxShift),
          s \in GainLevels, e \in GainLevels :
        parameters = [i \in Instances |->
            IF i = 1
            THEN [should_apply |-> <<TRUE>>, fade_time_samples |-> <<f>>, t0 |-> <<t0>>,
                  start_gain_db |-> <<s>>, end_gain_db |-> <<e>>]
            ELSE NoParameters]
    /\ owner = [i \in Instances |-> [k \in ParamNames |-> IF i = 1 THEN 1 ELSE 0]]
    /\ pc = [t \in Threads |-> IF t = 1 THEN "randomized" ELSE "idle"]
    /\ \E channels \in 1..MaxChannels, total \in 0..MaxTotal, sample_rate \in SampleRates :
        /\ call = [t \in Threads |->
                IF t = 1
                THEN << [channels |-> channels, total |-> total,
                         sample_rate |-> sample_rate, coin |-> TRUE] >>
                ELSE <<>>]
        /\ heap = [t \in Threads |->
                IF t = 1 THEN [input |-> Waveform(channels, total), copy |-> <<>>]
                ELSE NoHeap]
    /\ ret = [t \in Threads |-> <<>>]
    /\ frame = [t \in Threads |-> <<>>]

NextFree == \E t \in Threads : Apply(t)

SpecFree == InitFree /\ [][NextFree]_vars

\* ------------------------------------------------- concurrent invocations
\* two threads, each transforming its own waveform again and again
ThreadTotal(t) == IF t = 1 THEN 2 ELSE MaxTotal

ConcConfig ==
    GainTransitionInit([min_gain_in_db |-> <<>>, max_gain_in_db |-> <<>>,
                        min_gain_db |-> <<-30>>, max_gain_db |-> <<>>,
                        min_duration |-> Rat(3, 1), max_duration |-> Rat(3, 1),
                        duration_unit |-> "samples", p |-> 50])[1]

InitConc ==
    /\ inst = "constructed"
    /\ config = <<ConcConfig>>
    /\ sync \in {"none", "atomic", "own"}
    /\ lock = 0
    /\ parameters = [i \in Instances |-> NoParameters]
    /\ owner = [i \in Instances |-> [k \in ParamNames |-> 0]]
    /\ pc = [t \in Threads |-> "idle"]
    /\ call = [t \in Threads |-> <<>>]
    /\ heap = [t \in Threads |-> NoHeap]
    /\ ret = [t \in Threads |-> <<>>]
    /\ frame = [t \in Threads |-> <<>>]

ThreadCall(t) == \E sample_rate \in SampleRates : BeginCall(t, 1, ThreadTotal(t), sample_rate)

NextConc ==
    \/ \E t \in Threads : ThreadCall(t)
    \/ \E t \in Threads : Apply(t)
    \/ \E t \in Threads : Skip(t)
    \/ \E t \in Threads : Return(t)

SpecConc == InitConc /\ [][NextConc]_vars

\* ------------------------------------------------------------------ claims
\* what the invocation of thread t was given and what its apply read
TotalOf(t) == call[t][1].total
ChannelsOf(t) == call[t][1].channels
ReadOf(t) == frame[t][1].read
LocalsOf(t) == frame[t][1].locals
\* the threads whose invocation has run apply
Applying == { t \in Threads : frame[t] # <<>> }

\* every sample of the returned array is the input sample times the one ratio
ReturnsConstantGain(t, db) ==
    /\ ret[t] # <<>>
    /\ LET out == Load(heap[t], ret[t][1])
           inp == Waveform(ChannelsOf(t), TotalOf(t))
       IN  /\ Len(out) = ChannelsOf(t)
           /\ \A c \in 1..ChannelsOf(t) :
                /\ Len(out[c]) = TotalOf(t)
                /\ \A i \in 1..TotalOf(t) :
                     /\ out[c][i].x = inp[c][i].x
                     /\ out[c][i].g = << convert_decibels_to_amplitude_ratio(Rat(db, 1)) >>

\* C1 as stated: for every integer t0, every fade_time_samples >= 1 and every
\* total_samples >= 0, the cropped fade curve at line 171 has exactly
\* end_sample_index - start_sample_index points.
C1_CropLengthForAllT0 ==
    \A t \in Applying :
        Len(LocalsOf(t).fade_mask)
            = LocalsOf(t).end_sample_index - LocalsOf(t).start_sample_index

\* whether the window starts no earlier than its own length before the
\* waveform and no later than the waveform's end
WindowTouches(t) ==
    /\ -ReadOf(t).fade_time_samples <= ReadOf(t).t0
    /\ ReadOf(t).t0 <= TotalOf(t)

\* C1 amended: the cropped fade curve has end_sample_index - start_sample_index
\* points, which is the length of the slice it is multiplied into, exactly when
\* -fade_time_samples <= t0 <= total_samples; for every other t0 the two differ.
C1_CropLengthWhenTouching ==
    \A t \in Applying :
        LET loc == LocalsOf(t)
        IN  IF WindowTouches(t)
            THEN /\ Len(loc.fade_mask) = loc.end_sample_index - loc.start_sample_index
                 /\ Len(loc.fade_mask)
                      = Cardinality(SliceRange(loc.start_sample_index,
                                               loc.end_sample_index, TotalOf(t)))
            ELSE Len(loc.fade_mask) # loc.end_sample_index - loc.start_sample_index

\* C1 witness: apply has cropped a curve on both sides of a waveform
C1_BothCrops ==
    \E t \in Applying :
        /\ ReadOf(t).t0 < 0
        /\ ReadOf(t).t0 + ReadOf(t).fade_time_samples > TotalOf(t)
        /\ TotalOf(t) >= 1
        /\ Len(LocalsOf(t).fade_mask) = TotalOf(t)

\* the window lies wholly before the waveform, or wholly after it
WindowBefore(t) == ReadOf(t).t0 + ReadOf(t).fade_time_samples <= 0
WindowAfter(t) == ReadOf(t).t0 >= TotalOf(t)

\* C7 as stated: whenever the window lies wholly before the waveform or wholly
\* after it, apply returns, and every sample of its result is the input sample
\* times the end gain (window before) or the start gain (window after).
C7_OutsideIsConstantGain ==
    \A t \in Applying :
        /\ WindowBefore(t) =>
              pc[t] = "applied" /\ ReturnsConstantGain(t, ReadOf(t).end_gain_db)
        /\ WindowAfter(t) =>
              pc[t] = "applied" /\ ReturnsConstantGain(t, ReadOf(t).start_gain_db)

\* the placements outside the waveform on which line 173 broadcasts
BeforeBroadcasts(t) ==
    \/ ReadOf(t).t0 + ReadOf(t).fade_time_samples = 0
    \/ ReadOf(t).t0 + ReadOf(t).fade_time_samples <= -TotalOf(t)
AfterBroadcasts(t) ==
    \/ ReadOf(t).t0 = TotalOf(t)
    \/ ReadOf(t).t0 >= TotalOf(t) + ReadOf(t).fade_time_samples - 1

\* C7 amended: with the window wholly before the waveform, apply returns the
\* input times the end gain when t0 + fade_time_samples = 0 or
\* t0 + fade_time_samples <= -total_samples, and raises otherwise; with the
\* window wholly after it, apply returns the input times the start gain when
\* t0 = total_samples or t0 >= total_samples + fade_time_samples - 1, and
\* raises otherwise.
C7_OutsideConstantGainOrRaise ==
    \A t \in Applying :
        /\ WindowBefore(t) =>
              IF BeforeBroadcasts(t)
              THEN pc[t] = "applied" /\ ReturnsConstantGain(t, ReadOf(t).end_gain_db)
              ELSE pc[t] = "apply_raised"
        /\ WindowAfter(t) =>
              IF AfterBroadcasts(t)
              THEN pc[t] = "applied" /\ ReturnsConstantGain(t, ReadOf(t).start_gain_db)
              ELSE pc[t] = "apply_raised"

\* C7 witness: a window ending where a two-channel waveform begins, applied
C7_WindowEndsAtStart ==
    \E t \in Applying :
        /\ ReadOf(t).t0 + ReadOf(t).fade_time_samples = 0
        /\ TotalOf(t) >= 2
        /\ ChannelsOf(t) = 2
        /\ ReadOf(t).start_gain_db # ReadOf(t).end_gain_db
        /\ pc[t] = "applied"

\* the threads whose randomize_parameters has returned with should_apply true
Drawn == { t \in Threads : pc[t] = "randomized" /\ call[t][1].coin }
ParametersOf(t) == parameters[InstanceOf(t)]

\* how many sample indices of the waveform the window [t0, t0 + fade) covers
Overlap(t0, fade_time_samples, total) ==
    Cardinality({ i \in 0..(total - 1) : t0 <= i /\ i < t0 + fade_time_samples })

\* the ratio the claim gives sample index i (from 0)
ExpectedRatio(rd, i) ==
    IF i < rd.t0
    THEN convert_decibels_to_amplitude_ratio(Rat(rd.start_gain_db, 1))
    ELSE IF i < rd.t0 + rd.fade_time_samples
    THEN get_fade_mask(rd.start_gain_db, rd.end_gain_db, rd.fade_time_samples)[i - rd.t0 + 1]
    ELSE convert_decibels_to_amplitude_ratio(Rat(rd.end_gain_db, 1))

\* C2: on a waveform of at least 2 samples, with drawn parameters, apply
\* returns an array of the input's shape in which sample i of every channel is
\* the input sample multiplied once: by the start gain before t0, by point
\* i - t0 of the uncropped curve inside the window, by the end gain after it.
C2_GainPerSample ==
    \A t \in Applying :
        TotalOf(t) >= 2 =>
            /\ pc[t] = "applied"
            /\ ret[t] # <<>>
            /\ LET out == Load(heap[t], ret[t][1])
                   inp == Waveform(ChannelsOf(t), TotalOf(t))
               IN  /\ Len(out) = ChannelsOf(t)
                   /\ \A c \in 1..ChannelsOf(t) :
                        /\ Len(out[c]) = TotalOf(t)
                        /\ \A i \in 1..TotalOf(t) :
                             /\ out[c][i].x = inp[c][i].x
                             /\ out[c][i].g = << ExpectedRatio(ReadOf(t), i - 1) >>

\* C2 witness: a two-channel result with a held start, a whole transition and
\* a held end
C2_ThreeRegions ==
    \E t \in Applying :
        /\ pc[t] = "applied"
        /\ ChannelsOf(t) = 2
        /\ ReadOf(t).t0 > 0
        /\ ReadOf(t).t0 + ReadOf(t).fade_time_samples < TotalOf(t)
        /\ ReadOf(t).start_gain_db # ReadOf(t).end_gain_db

\* C3: throughout an invocation the caller's array holds the values it was
\* passed, and what apply returns is the separate copy.
C3_InputUntouched ==
    \A t \in Threads :
        call[t] # <<>> =>
            /\ heap[t].input = Waveform(ChannelsOf(t), TotalOf(t))
            /\ pc[t] = "applied" => ret[t] = <<"copy">>

\* C3 witness: apply has returned an array whose samples differ from the input's
C3_CopyReturned ==
    \E t \in Threads :
        /\ pc[t] = "applied"
        /\ TotalOf(t) >= 2
        /\ heap[t].copy # <<>>
        /\ \A c \in 1..ChannelsOf(t) : \A i \in 1..TotalOf(t) :
              heap[t].copy[1][c][i] # heap[t].input[c][i]

ValidGains == config[1].min_gain_db <= config[1].max_gain_db
ValidDurations ==
    /\ config[1].min_duration.n > 0
    /\ RatLeq(config[1].min_duration, config[1].max_duration)

C5_OverlapFromOneSample ==
    \A t \in Drawn :
        TotalOf(t) >= 1 =>
            Overlap(ParametersOf(t).t0[1], ParametersOf(t).fade_time_samples[1],
                    TotalOf(t)) >= 2

\* C5 amended: on a waveform of at least 2 samples, the drawn window covers at
\* least 2 sample indices of the waveform.
C5_OverlapFromTwoSamples ==
    \A t \in Drawn :
        TotalOf(t) >= 2 =>
            Overlap(ParametersOf(t).t0[1], ParametersOf(t).fade_time_samples[1],
                    TotalOf(t)) >= 2

\* C5 witness: a drawn window that starts before a waveform and covers exactly
\* 2 of its samples
C5_OverlapOfTwo ==
    \E t \in Drawn :
        /\ TotalOf(t) >= 3
        /\ ParametersOf(t).t0[1] < 0
        /\ Overlap(ParametersOf(t).t0[1], ParametersOf(t).fade_time_samples[1],
                   TotalOf(t)) = 2

\* C6: when randomize_parameters returns with should_apply true, the unit is
\* one of the three, fade_time_samples is max(3, d) for an integer d between
\* the two duration bounds in samples, t0 is between -fade_time_samples + 2
\* and total_samples - 2, and both gains are between min_gain_db and
\* max_gain_db.
C6_DrawnInRange ==
    \A t \in Drawn :
        LET par == ParametersOf(t)
            b == DurationInSamples(config[1], TotalOf(t), call[t][1].sample_rate)
        IN  /\ config[1].duration_unit \in Units
            /\ b # <<>>
            /\ \A k \in ParamNames : par[k] # <<>>
            /\ \E d \in b[1].min.n .. b[1].max.n : par.fade_time_samples[1] = Max(3, d)
            /\ par.fade_time_samples[1] >= 3
            /\ -par.fade_time_samples[1] + 2 <= par.t0[1]
            /\ par.t0[1] <= TotalOf(t) - 2
            /\ config[1].min_gain_db <= par.start_gain_db[1]
            /\ par.start_gain_db[1] <= config[1].max_gain_db
            /\ config[1].min_gain_db <= par.end_gain_db[1]
            /\ par.end_gain_db[1] <= config[1].max_gain_db

\* C6 witness: a fraction of an odd length, rounded, gives a transition longer
\* than the floor of 3, placed as late as the range allows
C6_FractionDrawn ==
    \E t \in Drawn :
        /\ config[1].duration_unit = "fraction"
        /\ config[1].min_duration = Rat(1, 2)
        /\ TotalOf(t) = 5
        /\ ParametersOf(t).fade_time_samples[1] > 3
        /\ ParametersOf(t).t0[1] = TotalOf(t) - 2

\* C8: apply runs only in an invocation whose own coin flip was true, and every
\* fade parameter it reads was assigned by that invocation's
\* randomize_parameters; an invocation whose coin flip was false assigns no
\* fade parameter, runs no apply and returns the caller's array as it was.
C8_ApplyReadsOwnDraws ==
    \A t \in Threads :
        /\ pc[t] \in {"applied", "apply_raised"} =>
              /\ call[t][1].coin
              /\ frame[t] # <<>>
              /\ frame[t][1].owners = {t}
              /\ \A k \in ParamNames : ReadOf(t)[k] = ParametersOf(t)[k][1]
        /\ (call[t] # <<>> /\ ~call[t][1].coin) =>
              /\ pc[t] \in {"randomized", "skipped"}
              /\ \A k \in ParamNames : owner[InstanceOf(t)][k] # t
              /\ frame[t] = <<>>
              /\ heap[t] = [input |-> Waveform(ChannelsOf(t), TotalOf(t)), copy |-> <<>>]
              /\ pc[t] = "skipped" => ret[t] = <<"input">>

\* C8 witness: an invocation whose coin flip was false has returned the input
\* while the mapping holds the parameters of an earlier invocation
C8_SkipAfterApply ==
    /\ pc[1] = "skipped"
    /\ ret[1] = <<"input">>
    /\ \A k \in ParamNames : parameters[1][k] # <<>> /\ owner[1][k] = 0

ReadT0InRange(t) ==
    /\ -ReadOf(t).fade_time_samples + 2 <= ReadOf(t).t0
    /\ ReadOf(t).t0 <= TotalOf(t) - 2

\* C10: when each invocation's randomize-then-apply pair runs under a lock, or
\* each thread has its own instance, apply reads only parameters its own
\* invocation drew, with t0 in the range of its own waveform and a cropped
\* curve as long as its slice; without either, a state where this fails is
\* reachable (the witness).
C10_SynchronizedReadsOwnDraws ==
    sync \in {"atomic", "own"} =>
        \A t \in Applying :
            /\ frame[t][1].owners = {t}
            /\ ReadT0InRange(t)
            /\ Len(LocalsOf(t).fade_mask)
                 = LocalsOf(t).end_sample_index - LocalsOf(t).start_sample_index

\* C10 witness: on a shared instance without a lock, apply has read parameters
\* the other thread drew, with a t0 past the range of its own waveform and a
\* cropped curve that does not match its slice
C10_ReadsOtherThreadsDraws ==
    /\ sync = "none"
    /\ \E t \in Applying :
        /\ frame[t][1].owners = Threads \ {t}
        /\ ReadOf(t).t0 > TotalOf(t) - 2
        /\ Len(LocalsOf(t).fade_mask)
             # LocalsOf(t).end_sample_index - LocalsOf(t).start_sample_index

====
